---- MODULE Spec2Model ----
(***************************************************************************)
(* Startup configuration resolution of gvnt, cmd/utils/flags.go.           *)
(*                                                                         *)
(* The command line (ctx) is parsed by the cli front end before any of the *)
(* functions below runs and is read-only afterwards.  The configuration    *)
(* structs (node.Config with its P2P section, vnt.Config) start from the   *)
(* compiled-in defaults, possibly overridden by a loaded config file, and  *)
(* are then overridden flag by flag by SetNodeConfig (SetP2PConfig, setIPC)*)
(* and SetEthConfig.  RegisterEthService then records the service factory  *)
(* chosen by the resolved sync mode, RegisterEthStatsService the factory   *)
(* of the stats service, and the node's start runs the recorded factories  *)
(* in registration order.  Fatalf terminates the process.                  *)
(*                                                                         *)
(* Fields that are copied flag-to-field with no condition other than       *)
(* "the flag is set" and that no other statement reads (HTTP, WS, datadir, *)
(* txpool, gas price oracle, network id, ...) are left out.                *)
(***************************************************************************)
EXTENDS Integers, Sequences, FiniteSets, TLC

\* ------------------------------------------------------------------ bounds
\* Largest --maxpeers value and largest prior cfg.MaxPeers drawn.
PeerBound == 3
\* Largest --lightpeers value drawn.
LightPeerBound == 2
\* Largest explicit --cache value (MB) drawn.
CacheBound == 3

\* ------------------------------------------------------- flag descriptors
FlagOf(name) == [kind |-> "flag", Name |-> name]
\* A string following a flag in checkExclusive's argument list.
Str(s) == [kind |-> "string", s |-> s]

SyncModeFlag == FlagOf("syncmode")
GCModeFlag == FlagOf("gcmode")
LightServFlag == FlagOf("lightserv")
LightPeersFlag == FlagOf("lightpeers")
CacheFlag == FlagOf("cache")
CacheDatabaseFlag == FlagOf("cache.database")
CacheGCFlag == FlagOf("cache.gc")
IPCDisabledFlag == FlagOf("ipcdisable")
IPCPathFlag == FlagOf("ipcpath")
MaxPeersFlag == FlagOf("maxpeers")
NoDiscoverFlag == FlagOf("nodiscover")
VNTBootnodeFlag == FlagOf("vntbootnode")
BootnodesFlag == FlagOf("bootnodes")
BootnodesV4Flag == FlagOf("bootnodesv4")
EthStatsURLFlag == FlagOf("ethstats")

\* downloader.SyncMode, the type behind --syncmode and cfg.SyncMode.
FullSync == "FullSync"
FastSync == "FastSync"
LightSync == "LightSync"
SyncModes == {FullSync, FastSync, LightSync}

\* SyncMode.MarshalText: the literal of a mode.
MarshalText(mode) ==
    CASE mode = FullSync -> "full"
      [] mode = FastSync -> "fast"
      [] mode = LightSync -> "light"

\* ------------------------------------------------- cli.Context accessors
GlobalIsSet(c, name) == c[name].set
GlobalInt(c, name) == c[name].value
GlobalBool(c, name) == c[name].value
\* The flag value's String(): the marshalled text for the TextMarshalerFlag.
GlobalString(c, name) ==
    IF name = SyncModeFlag.Name THEN MarshalText(c[name].value) ELSE c[name].value
GlobalTextMarshaler(c, name) == c[name].value

\* ------------------------------------------------------- process outcome
NoFatal == [fn |-> "none", set |-> <<>>, msg |-> ""]
Fatalf(fn, set, msg) == [fn |-> fn, set |-> set, msg |-> msg]

RECURSIVE Join(_, _)
\* strings.Join(elems, sep)
Join(elems, sep) ==
    IF Len(elems) = 0 THEN ""
    ELSE IF Len(elems) = 1 THEN elems[1]
    ELSE elems[1] \o sep \o Join(Tail(elems), sep)

\* --------------------------------------------------------- bootstrap nodes
\* The value of a comma separated flag is held as its sequence of tokens, a
\* token being "," or a run of characters without a comma; "" is <<>>.
EmptyString == <<>>

RECURSIVE SplitFrom(_, _, _)
\* strings.Split(s, ",") from token i on; piece is the piece being read.
SplitFrom(s, i, piece) ==
    IF i > Len(s) THEN <<piece>>
    ELSE IF s[i] = "," THEN <<piece>> \o SplitFrom(s, i + 1, "")
    ELSE SplitFrom(s, i + 1, piece \o s[i])

Split(s) == SplitFrom(s, 1, "")

\* The URLs vntp2p.ParseNode accepts and the addresses vntp2p.GetAddr accepts.
NodeURLs == {"vnode://a", "vnode://b", "vnode://main"}
NodeAddrs == {"/ip4/a"}
ParseNode(url) == [ok |-> url \in NodeURLs, node |-> url]
GetAddr(url) == [ok |-> url \in NodeAddrs, node |-> url]

\* params.MainnetBootnodes
MainnetBootnodes == <<"vnode://main">>

\* A nil []*vntp2p.Node, and a non-nil one.
NilNodes == [nil |-> TRUE, nodes |-> <<>>]
Nodes(list) == [nil |-> FALSE, nodes |-> list]

\* log.Error("Bootstrap URL invalid", key, url, "err", err)
BootstrapURLInvalid(key, url) == [msg |-> "Bootstrap URL invalid", key |-> key, url |-> url]

RECURSIVE setVNTBootnodeLoop(_, _, _, _)
\* The loop of setVNTBootnode from url i on: the nodes appended and the
\* errors logged so far.
setVNTBootnodeLoop(urls, i, nodes, errs) ==
    IF i > Len(urls) THEN [nodes |-> nodes, errors |-> errs]
    ELSE LET r == GetAddr(urls[i])
         IN IF ~r.ok
            THEN setVNTBootnodeLoop(urls, i + 1, nodes,
                                    Append(errs, BootstrapURLInvalid("vntnode", urls[i])))
            ELSE setVNTBootnodeLoop(urls, i + 1, Append(nodes, r.node), errs)

\* setVNTBootnode: cfg.BootstrapNodes afterwards and the errors logged.
setVNTBootnode(c, bootstrapNodes) ==
    IF GlobalString(c, VNTBootnodeFlag.Name) = EmptyString
    THEN [BootstrapNodes |-> bootstrapNodes, errors |-> <<>>]
    ELSE LET r == setVNTBootnodeLoop(Split(GlobalString(c, VNTBootnodeFlag.Name)), 1, <<>>, <<>>)
         IN [BootstrapNodes |-> Nodes(r.nodes), errors |-> r.errors]

RECURSIVE setBootstrapNodesLoop(_, _, _, _)
\* The loop of setBootstrapNodes from url i on.
setBootstrapNodesLoop(urls, i, nodes, errs) ==
    IF i > Len(urls) THEN [nodes |-> nodes, errors |-> errs]
    ELSE LET r == ParseNode(urls[i])
         IN IF ~r.ok
            THEN setBootstrapNodesLoop(urls, i + 1, nodes,
                                       Append(errs, BootstrapURLInvalid("vnode", urls[i])))
            ELSE setBootstrapNodesLoop(urls, i + 1, Append(nodes, r.node), errs)

\* setBootstrapNodes: cfg.BootstrapNodes afterwards and the errors logged.
setBootstrapNodes(c, bootstrapNodes) ==
    LET flagged == GlobalIsSet(c, BootnodesFlag.Name) \/ GlobalIsSet(c, BootnodesV4Flag.Name)
        urls == IF ~flagged THEN MainnetBootnodes
                ELSE IF GlobalIsSet(c, BootnodesV4Flag.Name)
                THEN Split(GlobalString(c, BootnodesV4Flag.Name))
                ELSE Split(GlobalString(c, BootnodesFlag.Name))
    IN IF ~flagged /\ ~bootstrapNodes.nil
       THEN [BootstrapNodes |-> bootstrapNodes, errors |-> <<>>]
       ELSE LET r == setBootstrapNodesLoop(urls, 1, <<>>, <<>>)
            IN [BootstrapNodes |-> Nodes(r.nodes), errors |-> r.errors]

\* ---------------------------------------------------------- checkExclusive
RECURSIVE checkExclusiveLoop(_, _, _, _)
\* The loop of checkExclusive from position i (1-based) with the names
\* collected so far.
checkExclusiveLoop(c, args, i, set) ==
    IF i > Len(args) THEN [panic |-> FALSE, set |-> set]
    ELSE IF args[i].kind # "flag" THEN [panic |-> TRUE, set |-> set]
    ELSE LET flag == args[i]
             extended == i + 1 <= Len(args) /\ args[i + 1].kind = "string"
             name == IF extended /\ GlobalString(c, flag.Name) = args[i + 1].s
                     THEN flag.Name \o "=" \o args[i + 1].s
                     ELSE flag.Name
             next == IF extended THEN i + 2 ELSE i + 1
             set2 == IF GlobalIsSet(c, flag.Name)
                     THEN Append(set, "--" \o name)
                     ELSE set
         IN checkExclusiveLoop(c, args, next, set2)

\* A plausible slip: the threshold one too high.
checkExclusiveOffByOne(c, args) ==
    LET r == checkExclusiveLoop(c, args, 1, <<>>)
    IN [panic |-> r.panic, set |-> r.set, fatal |-> ~r.panic /\ Len(r.set) > 2]

\* checkExclusive: the names collected and whether Fatalf is called.
checkExclusive(c, args) ==
    LET r == checkExclusiveLoop(c, args, 1, <<>>)
    IN [panic |-> r.panic, set |-> r.set, fatal |-> ~r.panic /\ Len(r.set) > 1]

\* The outcome of a checkExclusive call that stops the process.
ExclusiveFatal(r) ==
    IF r.panic THEN Fatalf("panic", r.set, "invalid argument")
    ELSE Fatalf("checkExclusive", r.set,
                "Flags " \o Join(r.set, ", ") \o " can't be used at the same time")

IPCGroup == <<IPCDisabledFlag, IPCPathFlag>>
LightGroup == <<LightServFlag, SyncModeFlag, Str("light")>>

\* ------------------------------------------------------------ SetP2PConfig
\* A plausible slip: the light-peer allowance added even when --lightpeers
\* was given explicitly.
ResolvePeersAlwaysAdd(c, maxPeers0) ==
    LET lightClient == GlobalString(c, SyncModeFlag.Name) = "light"
        lightServer == GlobalInt(c, LightServFlag.Name) # 0
        lightPeers == GlobalInt(c, LightPeersFlag.Name)
        total == IF GlobalIsSet(c, MaxPeersFlag.Name)
                 THEN GlobalInt(c, MaxPeersFlag.Name)
                      + (IF lightServer THEN lightPeers ELSE 0)
                 ELSE LET t == maxPeers0 + (IF lightServer THEN lightPeers ELSE 0)
                      IN IF lightClient /\ GlobalIsSet(c, LightPeersFlag.Name)
                            /\ t < lightPeers
                         THEN lightPeers ELSE t
        les == IF ~(lightClient \/ lightServer) THEN 0 ELSE lightPeers
    IN [MaxPeers |-> total, lightPeers |-> les,
        ethPeers |-> IF lightClient THEN 0 ELSE total - les,
        lightClient |-> lightClient, lightServer |-> lightServer]

\* A plausible slip: the light-client floor applied without comparing.
ResolvePeersNoCompare(c, maxPeers0) ==
    LET lightClient == GlobalString(c, SyncModeFlag.Name) = "light"
        lightServer == GlobalInt(c, LightServFlag.Name) # 0
        lightPeers == GlobalInt(c, LightPeersFlag.Name)
        total == IF GlobalIsSet(c, MaxPeersFlag.Name)
                 THEN GlobalInt(c, MaxPeersFlag.Name)
                      + (IF lightServer /\ ~GlobalIsSet(c, LightPeersFlag.Name)
                         THEN lightPeers ELSE 0)
                 ELSE LET t == maxPeers0 + (IF lightServer THEN lightPeers ELSE 0)
                      IN IF lightClient /\ GlobalIsSet(c, LightPeersFlag.Name)
                         THEN lightPeers ELSE t
        les == IF ~(lightClient \/ lightServer) THEN 0 ELSE lightPeers
    IN [MaxPeers |-> total, lightPeers |-> les,
        ethPeers |-> IF lightClient THEN 0 ELSE total - les,
        lightClient |-> lightClient, lightServer |-> lightServer]

\* A plausible slip: the light client's full-protocol slots not zeroed.
ResolvePeersNoZero(c, maxPeers0) ==
    LET lightClient == GlobalString(c, SyncModeFlag.Name) = "light"
        lightServer == GlobalInt(c, LightServFlag.Name) # 0
        lightPeers == GlobalInt(c, LightPeersFlag.Name)
        total == IF GlobalIsSet(c, MaxPeersFlag.Name)
                 THEN GlobalInt(c, MaxPeersFlag.Name)
                      + (IF lightServer /\ ~GlobalIsSet(c, LightPeersFlag.Name)
                         THEN lightPeers ELSE 0)
                 ELSE LET t == maxPeers0 + (IF lightServer THEN lightPeers ELSE 0)
                      IN IF lightClient /\ GlobalIsSet(c, LightPeersFlag.Name)
                            /\ t < lightPeers
                         THEN lightPeers ELSE t
        les == IF ~(lightClient \/ lightServer) THEN 0 ELSE lightPeers
    IN [MaxPeers |-> total, lightPeers |-> les,
        ethPeers |-> total - les,
        lightClient |-> lightClient, lightServer |-> lightServer]

\* The peer-slot resolution of SetP2PConfig: cfg.MaxPeers, and the locals
\* lightPeers and ethPeers as logged; maxPeers0 is cfg.MaxPeers on entry.
ResolvePeers(c, maxPeers0) ==
    LET lightClient == GlobalString(c, SyncModeFlag.Name) = "light"
        lightServer == GlobalInt(c, LightServFlag.Name) # 0
        lightPeers == GlobalInt(c, LightPeersFlag.Name)
        total == IF GlobalIsSet(c, MaxPeersFlag.Name)
                 THEN GlobalInt(c, MaxPeersFlag.Name)
                      + (IF lightServer /\ ~GlobalIsSet(c, LightPeersFlag.Name)
                         THEN lightPeers ELSE 0)
                 ELSE LET t == maxPeers0 + (IF lightServer THEN lightPeers ELSE 0)
                      IN IF lightClient /\ GlobalIsSet(c, LightPeersFlag.Name)
                            /\ t < lightPeers
                         THEN lightPeers ELSE t
        les == IF ~(lightClient \/ lightServer) THEN 0 ELSE lightPeers
    IN [MaxPeers |-> total, lightPeers |-> les,
        ethPeers |-> IF lightClient THEN 0 ELSE total - les,
        lightClient |-> lightClient, lightServer |-> lightServer]

NoLog == [written |-> FALSE, VNT |-> 0, LES |-> 0, total |-> 0]

\* SetP2PConfig on the P2P section p2p; e names the collaborators that fail.
\* The result carries the section as written so far, the "Maximum peer
\* count" log line, the errors logged by the bootstrap-node setters and the
\* Fatalf that stopped the function, if any.
SetP2PConfigResult(c, e, p2p) ==
    IF "setNodeKey" \in e
    THEN [fatal |-> Fatalf("setNodeKey", <<>>, "Option nodekey"), P2P |-> p2p,
          log |-> NoLog, errors |-> <<>>]
    ELSE IF GlobalIsSet(c, "nat") /\ "NATParse" \in e
    THEN [fatal |-> Fatalf("setNAT", <<>>, "Option nat"), P2P |-> p2p,
          log |-> NoLog, errors |-> <<>>]
    ELSE LET v == setVNTBootnode(c, p2p.BootstrapNodes)
             b == setBootstrapNodes(c, v.BootstrapNodes)
             errs == v.errors \o b.errors
             r == ResolvePeers(c, p2p.MaxPeers)
             q == [p2p EXCEPT !.BootstrapNodes = b.BootstrapNodes,
                              !.MaxPeers = r.MaxPeers,
                              !.NoDiscovery = IF GlobalIsSet(c, NoDiscoverFlag.Name)
                                                 \/ r.lightClient
                                              THEN TRUE ELSE @]
             line == [written |-> TRUE, VNT |-> r.ethPeers, LES |-> r.lightPeers,
                      total |-> r.MaxPeers]
         IN IF GlobalString(c, "netrestrict") # "" /\ "ParseNetlist" \in e
            THEN [fatal |-> Fatalf("SetP2PConfig", <<>>, "Option netrestrict"),
                  P2P |-> q, log |-> line, errors |-> errs]
            ELSE [fatal |-> NoFatal, P2P |-> q, log |-> line, errors |-> errs]

\* ------------------------------------------------------------------ setIPC
setIPCResult(c, cfg) ==
    LET x == checkExclusive(c, IPCGroup)
    IN IF x.fatal \/ x.panic THEN [fatal |-> ExclusiveFatal(x), cfg |-> cfg]
       ELSE [fatal |-> NoFatal,
             cfg |-> IF GlobalBool(c, IPCDisabledFlag.Name)
                     THEN [cfg EXCEPT !.IPCPath = ""]
                     ELSE IF GlobalIsSet(c, IPCPathFlag.Name)
                     THEN [cfg EXCEPT !.IPCPath = GlobalString(c, IPCPathFlag.Name)]
                     ELSE cfg]

\* ----------------------------------------------------------- SetNodeConfig
\* SetNodeConfig on node.Config cfg: SetP2PConfig, then setIPC.  checked is
\* the sequence of argument lists handed to checkExclusive on the way.
SetNodeConfigResult(c, e, cfg) ==
    LET p == SetP2PConfigResult(c, e, cfg.P2P)
        cfg1 == [cfg EXCEPT !.P2P = p.P2P]
    IN IF p.fatal # NoFatal
       THEN [fatal |-> p.fatal, cfg |-> cfg1, log |-> p.log, errors |-> p.errors,
             checked |-> <<>>]
       ELSE LET i == setIPCResult(c, cfg1)
            IN [fatal |-> i.fatal, cfg |-> i.cfg, log |-> p.log, errors |-> p.errors,
                checked |-> <<IPCGroup>>]

\* ------------------------------------------------------------ SetEthConfig
\* A plausible slip: the database cache recomputed whenever any cache flag
\* was given.
DatabaseCacheAnyFlag(c, old) ==
    IF GlobalIsSet(c, CacheFlag.Name) \/ GlobalIsSet(c, CacheDatabaseFlag.Name)
       \/ GlobalIsSet(c, CacheGCFlag.Name)
    THEN (GlobalInt(c, CacheFlag.Name) * GlobalInt(c, CacheDatabaseFlag.Name)) \div 100
    ELSE old

\* cfg.DatabaseCache after lines 935-937; old is its value before.  Go's
\* integer division truncates, which is \div on the non-negative values drawn.
DatabaseCacheOf(c, old) ==
    IF GlobalIsSet(c, CacheFlag.Name) \/ GlobalIsSet(c, CacheDatabaseFlag.Name)
    THEN (GlobalInt(c, CacheFlag.Name) * GlobalInt(c, CacheDatabaseFlag.Name)) \div 100
    ELSE old

\* A plausible slip: the trie cache rounded up instead of truncated.
TrieCacheRoundUp(c, old) ==
    IF GlobalIsSet(c, CacheFlag.Name) \/ GlobalIsSet(c, CacheGCFlag.Name)
    THEN (GlobalInt(c, CacheFlag.Name) * GlobalInt(c, CacheGCFlag.Name) + 99) \div 100
    ELSE old

\* cfg.TrieCache after lines 945-947; old is its value before.
TrieCacheOf(c, old) ==
    IF GlobalIsSet(c, CacheFlag.Name) \/ GlobalIsSet(c, CacheGCFlag.Name)
    THEN (GlobalInt(c, CacheFlag.Name) * GlobalInt(c, CacheGCFlag.Name)) \div 100
    ELSE old

\* SetEthConfig on vnt.Config cfg; e names the collaborators that fail.
SetEthConfigResult(c, e, cfg) ==
    LET x == checkExclusive(c, LightGroup)
    IN IF x.fatal \/ x.panic THEN [fatal |-> ExclusiveFatal(x), cfg |-> cfg]
       ELSE IF GlobalIsSet(c, "coinbase") /\ "MakeAddress" \in e
       THEN [fatal |-> Fatalf("setCoinbase", <<>>, "Option coinbase"), cfg |-> cfg]
       ELSE LET cfg1 == IF GlobalIsSet(c, SyncModeFlag.Name)
                        THEN [cfg EXCEPT !.SyncMode =
                                  GlobalTextMarshaler(c, SyncModeFlag.Name)]
                        ELSE cfg
                cfg2 == IF GlobalIsSet(c, LightServFlag.Name)
                        THEN [cfg1 EXCEPT !.LightServ = GlobalInt(c, LightServFlag.Name)]
                        ELSE cfg1
                cfg3 == IF GlobalIsSet(c, LightPeersFlag.Name)
                        THEN [cfg2 EXCEPT !.LightPeers = GlobalInt(c, LightPeersFlag.Name)]
                        ELSE cfg2
                cfg4 == [cfg3 EXCEPT !.DatabaseCache = DatabaseCacheOf(c, @)]
                gcmode == GlobalString(c, GCModeFlag.Name)
            IN IF "fdlimit" \in e
               THEN [fatal |-> Fatalf("makeDatabaseHandles", <<>>,
                                      "Failed to retrieve file descriptor allowance"),
                     cfg |-> cfg4]
               ELSE IF gcmode # "full" /\ gcmode # "archive"
               THEN [fatal |-> Fatalf("SetEthConfig", <<>>,
                                      "--gcmode must be either 'full' or 'archive'"),
                     cfg |-> cfg4]
               ELSE [fatal |-> NoFatal,
                     cfg |-> [cfg4 EXCEPT !.NoPruning = (gcmode = "archive"),
                                          !.TrieCache = TrieCacheOf(c, @)]]

\* ------------------------------------------------------ RegisterEthService
\* The factory RegisterEthService hands to stack.Register: the light client
\* for LightSync, otherwise the full node, which gets a light server when
\* cfg.LightServ > 0.
EthServiceFactory(cfg) ==
    IF cfg.SyncMode = LightSync
    THEN [service |-> "les.LightVnt", lesServer |-> FALSE, SyncMode |-> cfg.SyncMode,
          LightServ |-> cfg.LightServ]
    ELSE [service |-> "vnt.VNT", lesServer |-> cfg.LightServ > 0,
          SyncMode |-> cfg.SyncMode, LightServ |-> cfg.LightServ]

\* The factory RegisterEthStatsService hands to stack.Register.
EthStatsServiceFactory(url) == [service |-> "vntstats.Service", url |-> url]

\* ----------------------------------------------------------- node start-up
\* A service instance: its type, the light server attached to it ("none"
\* when AddLesServer was never called, "nil" when it was called with nil)
\* and, for the stats service, the two services it was built on.
Service(type, lesServer, vntServ, lesServ) ==
    [type |-> type, lesServer |-> lesServer, vntServ |-> vntServ, lesServ |-> lesServ]
Nil == "nil"
NilService == Service(Nil, "none", Nil, Nil)

\* vnt.New(ctx, cfg, stack): the pair (fullNode, err) it returns.
vntNew(e) ==
    IF "vnt.New" \in e THEN [fullNode |-> Nil, err |-> TRUE]
    ELSE IF "vnt.New/partial" \in e THEN [fullNode |-> "vnt.VNT", err |-> TRUE]
    ELSE [fullNode |-> "vnt.VNT", err |-> FALSE]

\* les.NewLesServer(fullNode, cfg): the pair (ls, err) it returns.
NewLesServer(e) ==
    IF "les.NewLesServer" \in e THEN [ls |-> Nil, err |-> TRUE]
    ELSE [ls |-> "les.LesServer", err |-> FALSE]

\* A plausible slip: the light server built whatever cfg.LightServ says.
FullNodeFactoryAlwaysServe(e, cfg) ==
    LET n == vntNew(e)
        serve == n.fullNode # Nil
        l == NewLesServer(e)
    IN [service |-> IF n.fullNode = Nil THEN NilService
                    ELSE Service(n.fullNode, IF serve THEN l.ls ELSE "none", Nil, Nil),
        err |-> n.err,
        calls |-> <<"vnt.New">>
                  \o (IF serve THEN <<"les.NewLesServer", "AddLesServer">> ELSE <<>>),
        errors |-> <<>>]

\* The full-node factory of RegisterEthService: what it returns, the
\* constructors it called and the errors it logged.
FullNodeFactory(e, cfg) ==
    LET n == vntNew(e)
        serve == n.fullNode # Nil /\ cfg.LightServ > 0
        l == NewLesServer(e)
    IN [service |-> IF n.fullNode = Nil THEN NilService
                    ELSE Service(n.fullNode, IF serve THEN l.ls ELSE "none", Nil, Nil),
        err |-> n.err,
        calls |-> <<"vnt.New">>
                  \o (IF serve THEN <<"les.NewLesServer", "AddLesServer">> ELSE <<>>),
        errors |-> <<>>]

\* The light-client factory of RegisterEthService.
LightFactory(e, cfg) ==
    IF "les.New" \in e
    THEN [service |-> NilService, err |-> TRUE, calls |-> <<"les.New">>, errors |-> <<>>]
    ELSE [service |-> Service("les.LightVnt", "none", Nil, Nil), err |-> FALSE,
          calls |-> <<"les.New">>, errors |-> <<>>]

\* ServiceContext.Service(&x): the running service of the type asked for,
\* or nil with ErrServiceUnknown.
Lookup(running, type) ==
    IF \E i \in 1..Len(running) : running[i].type = type
    THEN [found |-> type, err |-> FALSE]
    ELSE [found |-> Nil, err |-> TRUE]

\* A plausible slip: a lookup that finds nothing fails the factory.
EthStatsFactoryStrict(e, running) ==
    LET v == Lookup(running, "vnt.VNT")
        l == Lookup(running, "les.LightVnt")
    IN IF v.err \/ l.err
       THEN [service |-> NilService, err |-> TRUE, calls |-> <<>>, errors |-> <<>>]
       ELSE IF "vntstats.New" \in e
       THEN [service |-> NilService, err |-> TRUE, calls |-> <<"vntstats.New">>, errors |-> <<>>]
       ELSE [service |-> Service("vntstats.Service", "none", v.found, l.found),
             err |-> FALSE, calls |-> <<"vntstats.New">>, errors |-> <<>>]

\* The factory of RegisterEthStatsService; running holds the services
\* constructed before it.
EthStatsFactory(e, running) ==
    LET v == Lookup(running, "vnt.VNT")
        l == Lookup(running, "les.LightVnt")
    IN IF "vntstats.New" \in e
       THEN [service |-> NilService, err |-> TRUE, calls |-> <<"vntstats.New">>, errors |-> <<>>]
       ELSE [service |-> Service("vntstats.Service", "none", v.found, l.found),
             err |-> FALSE, calls |-> <<"vntstats.New">>, errors |-> <<>>]

\* One registered factory, run.
RunFactory(e, cfg, factory, running) ==
    IF factory.service = "les.LightVnt" THEN LightFactory(e, cfg)
    ELSE IF factory.service = "vnt.VNT" THEN FullNodeFactory(e, cfg)
    ELSE EthStatsFactory(e, running)

RECURSIVE RunFactories(_, _, _, _, _)
\* Node.Start: the factories run in registration order from position i on;
\* the first error stops the start.  acc holds the services constructed,
\* the constructors called, the errors logged and the failed service.
RunFactories(e, cfg, factories, i, acc) ==
    IF i > Len(factories) THEN acc
    ELSE LET r == RunFactory(e, cfg, factories[i], acc.running)
             acc1 == [acc EXCEPT !.calls = @ \o r.calls, !.errors = @ \o r.errors]
         IN IF r.err
            THEN [acc1 EXCEPT !.failed = factories[i].service, !.returned = r.service]
            ELSE RunFactories(e, cfg, factories, i + 1,
                              [acc1 EXCEPT !.running = Append(@, r.service)])

NotStarted == [running |-> <<>>, calls |-> <<>>, errors |-> <<>>, failed |-> "",
               returned |-> NilService]

\* ------------------------------------------------------------ command line
\* SyncMode.UnmarshalText: the mode of a literal, or an error.
UnmarshalText(text) ==
    CASE text = "full" -> [ok |-> TRUE, mode |-> FullSync]
      [] text = "fast" -> [ok |-> TRUE, mode |-> FastSync]
      [] text = "light" -> [ok |-> TRUE, mode |-> LightSync]
      [] OTHER -> [ok |-> FALSE, mode |-> FullSync]

\* A plausible slip: a literal that is not recognised read as full.
ParseSyncModeLenient(c, a) ==
    IF ~a.given THEN [fatal |-> NoFatal, ctx |-> c]
    ELSE [fatal |-> NoFatal,
          ctx |-> [c EXCEPT ![SyncModeFlag.Name] =
                        [set |-> TRUE, value |-> UnmarshalText(a.literal).mode]]]

\* The front end applying --syncmode: the flag's Set unmarshals the literal
\* into the flag value; an error ends the run before the command's action.
ParseSyncMode(c, a) ==
    IF ~a.given THEN [fatal |-> NoFatal, ctx |-> c]
    ELSE LET u == UnmarshalText(a.literal)
         IN IF ~u.ok
            THEN [fatal |-> Fatalf("Parse", <<"--syncmode">>,
                                   "invalid value for flag -syncmode"),
                  ctx |-> c]
            ELSE [fatal |-> NoFatal,
                  ctx |-> [c EXCEPT ![SyncModeFlag.Name] =
                                [set |-> TRUE, value |-> u.mode]]]

\* ------------------------------------------------------------------- state
VARIABLES
    argv,      \* --syncmode as written on the command line: [given, literal]
    ctx,       \* the parsed command line: flag name -> [set, value]
    env,       \* the external collaborators that fail when called
    pre,       \* the configuration before any function ran
    nodeCfg,   \* node.Config (its P2P section and IPCPath)
    vntCfg,    \* vnt.Config
    called,    \* the functions entered so far
    done,      \* the functions that returned
    checked,   \* the argument lists checkExclusive was called with, in order
    fatal,     \* the Fatalf that terminated the process, or NoFatal
    log,       \* the "Maximum peer count" line of SetP2PConfig
    errors,    \* the errors logged, in order
    services,  \* the factories registered with the node stack
    node       \* the node's start: services running, constructors called

vars == <<argv, ctx, env, pre, nodeCfg, vntCfg, called, done, checked, fatal, log,
          errors, services, node>>

\* ------------------------------------------------------------- flag values
Unset(v) == {[set |-> FALSE, value |-> v]}
SetTo(S) == [set : {TRUE}, value : S]

\* --syncmode: unset, the flag holds defaultSyncMode, which is
\* vnt.DefaultConfig.SyncMode, taken to be one of the full-node modes.
SyncModeOpts == Unset(FullSync) \cup Unset(FastSync) \cup SetTo(SyncModes)
LightServOpts == Unset(0) \cup SetTo({0, 10, 95})
\* --lightpeers: unset, the flag holds vnt.DefaultConfig.LightPeers.
LightPeersOpts == [set : BOOLEAN, value : 0..LightPeerBound]
MaxPeersOpts == Unset(25) \cup SetTo(0..PeerBound)
CacheOpts == Unset(1024) \cup SetTo(0..CacheBound)
Percents == {0, 1, 25, 33, 34, 50, 66, 67, 75, 99, 100}
CacheDatabaseOpts == Unset(75) \cup SetTo(Percents)
CacheGCOpts == Unset(25) \cup SetTo(Percents)
GCModeOpts == Unset("full") \cup SetTo({"full", "archive", "fast"})
IPCDisabledOpts == Unset(FALSE) \cup SetTo(BOOLEAN)
IPCPathOpts == Unset("") \cup SetTo({"gvnt.ipc"})
NoDiscoverOpts == Unset(FALSE) \cup SetTo({TRUE})
NATOpts == Unset("any") \cup SetTo({"none"})
NetrestrictOpts == Unset("") \cup SetTo({"10.0.0.0/8"})
CoinbaseOpts == Unset("0") \cup SetTo({"1"})
\* --syncmode on the command line: absent, or given with a literal.
ArgvOpts == {[given |-> FALSE, literal |-> ""]}
            \cup [given : {TRUE}, literal : {"full", "fast", "light", "archive"}]
VNTBootnodeOpts == Unset(EmptyString) \cup SetTo({<<"/ip4/a">>, <<"/ip4/a", ",", "bad">>})
BootnodesOpts ==
    Unset(EmptyString)
    \cup SetTo({EmptyString, <<"vnode://a">>, <<"vnode://a", ",", "bad", ",", "vnode://b">>})
BootnodesV4Opts == Unset(EmptyString) \cup SetTo({<<"vnode://b">>, <<"bad">>})
EthStatsURLOpts == Unset("") \cup SetTo({"node:secret@host:3000"})

Collaborators == {"setNodeKey", "NATParse", "ParseNetlist", "MakeAddress", "fdlimit"}
\* The ways the service constructors fail.
Constructors == {"vnt.New", "vnt.New/partial", "les.New", "les.NewLesServer",
                 "vntstats.New"}

Context(sm, ls, lp, mp, ca, cd, cg, gm, id, ip, nd, na, nr, cb) ==
    (SyncModeFlag.Name :> sm) @@ (LightServFlag.Name :> ls)
    @@ (LightPeersFlag.Name :> lp) @@ (MaxPeersFlag.Name :> mp)
    @@ (CacheFlag.Name :> ca) @@ (CacheDatabaseFlag.Name :> cd)
    @@ (CacheGCFlag.Name :> cg) @@ (GCModeFlag.Name :> gm)
    @@ (IPCDisabledFlag.Name :> id) @@ (IPCPathFlag.Name :> ip)
    @@ (NoDiscoverFlag.Name :> nd) @@ ("nat" :> na) @@ ("netrestrict" :> nr)
    @@ ("coinbase" :> cb)

\* The flags of the bootstrap-node setters and of the stats service.
MoreFlags(vb, bn, b4, es) ==
    (VNTBootnodeFlag.Name :> vb) @@ (BootnodesFlag.Name :> bn)
    @@ (BootnodesV4Flag.Name :> b4) @@ (EthStatsURLFlag.Name :> es)
\* No bootstrap-node flag given; --ethstats given.
PlainFlags ==
    MoreFlags([set |-> FALSE, value |-> EmptyString], [set |-> FALSE, value |-> EmptyString],
              [set |-> FALSE, value |-> EmptyString],
              [set |-> TRUE, value |-> "node:secret@host:3000"])

NodeConfig(maxPeers, noDiscovery, ipcPath) ==
    [P2P |-> [MaxPeers |-> maxPeers, NoDiscovery |-> noDiscovery,
              BootstrapNodes |-> NilNodes],
     IPCPath |-> ipcPath]
VntConfig(syncMode, lightServ, lightPeers, databaseCache, trieCache) ==
    [SyncMode |-> syncMode, LightServ |-> lightServ, LightPeers |-> lightPeers,
     DatabaseCache |-> databaseCache, TrieCache |-> trieCache, NoPruning |-> FALSE]

\* The part of the initial state that no option decides.
Fresh ==
    /\ nodeCfg = pre.node
    /\ vntCfg = pre.vnt
    /\ called = {}
    /\ done = {}
    /\ checked = <<>>
    /\ fatal = NoFatal
    /\ log = NoLog
    /\ errors = <<>>
    /\ services = <<>>
    /\ node = NotStarted

\* Every option that takes part in a conflict or a fatal path varies; the
\* peer and cache numbers keep their defaults.
Init ==
    /\ argv \in ArgvOpts
    /\ \E sm \in {o \in SyncModeOpts : ~o.set}, ls \in LightServOpts,
          lp \in {x \in LightPeersOpts : ~x.set /\ x.value = 1},
          mp \in Unset(25),
          ca \in Unset(1024), cd \in Unset(75), cg \in Unset(25),
          gm \in Unset("full") \cup SetTo({"fast"}),
          id \in IPCDisabledOpts, ip \in IPCPathOpts,
          nd \in NoDiscoverOpts, na \in SetTo({"none"}),
          nr \in SetTo({"10.0.0.0/8"}), cb \in SetTo({"1"}) :
          ctx = Context(sm, ls, lp, mp, ca, cd, cg, gm, id, ip, nd, na, nr, cb)
                @@ PlainFlags
    /\ env \in {{}} \cup {{x} : x \in Collaborators}
    /\ \E m \in SyncModes, s \in {0, 10} :
          pre = [node |-> NodeConfig(25, FALSE, "gvnt.ipc"),
                 vnt |-> VntConfig(m, s, 1, 768, 256)]
    /\ Fresh

\* The peer-slot inputs vary; nothing fails.
InitPeers ==
    /\ argv \in {a \in ArgvOpts : a.literal # "archive"}
    /\ \E sm \in {o \in SyncModeOpts : ~o.set}, ls \in LightServOpts,
          lp \in LightPeersOpts, mp \in MaxPeersOpts, nd \in Unset(FALSE) :
          ctx = Context(sm, ls, lp, mp, [set |-> FALSE, value |-> 1024],
                        [set |-> FALSE, value |-> 75], [set |-> FALSE, value |-> 25],
                        [set |-> FALSE, value |-> "full"],
                        [set |-> FALSE, value |-> FALSE], [set |-> FALSE, value |-> ""],
                        nd, [set |-> FALSE, value |-> "any"],
                        [set |-> FALSE, value |-> ""], [set |-> FALSE, value |-> "0"])
                @@ PlainFlags
    /\ env = {}
    /\ \E p \in 0..PeerBound :
          pre = [node |-> NodeConfig(p, FALSE, "gvnt.ipc"),
                 vnt |-> VntConfig(FastSync, 0, 1, 768, 256)]
    /\ Fresh

\* The cache inputs vary.
InitCache ==
    /\ argv = [given |-> FALSE, literal |-> ""]
    /\ \E ca \in CacheOpts, cd \in CacheDatabaseOpts, cg \in CacheGCOpts,
          gm \in Unset("full") \cup SetTo({"fast"}) :
          ctx = Context([set |-> FALSE, value |-> FastSync], [set |-> FALSE, value |-> 0],
                        [set |-> FALSE, value |-> 1], [set |-> FALSE, value |-> 25],
                        ca, cd, cg, gm,
                        [set |-> FALSE, value |-> FALSE], [set |-> FALSE, value |-> ""],
                        [set |-> FALSE, value |-> FALSE], [set |-> FALSE, value |-> "any"],
                        [set |-> FALSE, value |-> ""], [set |-> FALSE, value |-> "0"])
                @@ PlainFlags
    /\ env \in {{}, {"fdlimit"}}
    /\ \E d \in {768, 5}, t \in {256, 7} :
          pre = [node |-> NodeConfig(25, FALSE, "gvnt.ipc"),
                 vnt |-> VntConfig(FastSync, 0, 1, d, t)]
    /\ Fresh

\* ----------------------------------------------------------------- actions
\* app.Run: the front end parses the command line before the command's
\* action runs.
Parse ==
    /\ fatal = NoFatal
    /\ "Parse" \notin called
    /\ LET r == ParseSyncMode(ctx, argv)
       IN /\ ctx' = r.ctx
          /\ fatal' = r.fatal
          /\ done' = IF r.fatal = NoFatal THEN done \cup {"Parse"} ELSE done
    /\ called' = called \cup {"Parse"}
    /\ UNCHANGED <<argv, env, pre, nodeCfg, vntCfg, checked, log, errors, services, node>>

\* cmd: SetNodeConfig(ctx, &cfg.Node)
SetNodeConfig ==
    /\ fatal = NoFatal
    /\ "Parse" \in done
    /\ "SetNodeConfig" \notin called
    /\ LET r == SetNodeConfigResult(ctx, env, nodeCfg)
       IN /\ nodeCfg' = r.cfg
          /\ log' = r.log
          /\ errors' = errors \o r.errors
          /\ fatal' = r.fatal
          /\ checked' = checked \o r.checked
          /\ called' = called \cup {"SetNodeConfig", "SetP2PConfig"}
                              \cup (IF r.checked # <<>> THEN {"setIPC"} ELSE {})
          /\ done' = IF r.fatal = NoFatal THEN done \cup {"SetNodeConfig"} ELSE done
    /\ UNCHANGED <<argv, ctx, env, pre, vntCfg, services, node>>

\* cmd: SetEthConfig(ctx, stack, &cfg.Vnt)
SetEthConfig ==
    /\ fatal = NoFatal
    /\ "Parse" \in done
    /\ "SetEthConfig" \notin called
    /\ LET r == SetEthConfigResult(ctx, env, vntCfg)
       IN /\ vntCfg' = r.cfg
          /\ fatal' = r.fatal
          /\ done' = IF r.fatal = NoFatal THEN done \cup {"SetEthConfig"} ELSE done
    /\ checked' = Append(checked, LightGroup)
    /\ called' = called \cup {"SetEthConfig"}
    /\ UNCHANGED <<argv, ctx, env, pre, nodeCfg, log, errors, services, node>>

\* cmd: RegisterEthService(stack, &cfg.Vnt), on the resolved configuration.
RegisterEthService ==
    /\ fatal = NoFatal
    /\ "SetEthConfig" \in done
    /\ "RegisterEthService" \notin called
    /\ "StartNode" \notin called
    /\ services' = Append(services, EthServiceFactory(vntCfg))
    /\ called' = called \cup {"RegisterEthService"}
    /\ done' = done \cup {"RegisterEthService"}
    /\ UNCHANGED <<argv, ctx, env, pre, nodeCfg, vntCfg, checked, fatal, log, errors, node>>

\* cmd: RegisterEthStatsService(stack, url), called when --ethstats names a
\* URL.
RegisterEthStatsService ==
    /\ fatal = NoFatal
    /\ "SetEthConfig" \in done
    /\ GlobalString(ctx, EthStatsURLFlag.Name) # ""
    /\ "RegisterEthStatsService" \notin called
    /\ "StartNode" \notin called
    /\ services' = Append(services,
                          EthStatsServiceFactory(GlobalString(ctx, EthStatsURLFlag.Name)))
    /\ called' = called \cup {"RegisterEthStatsService"}
    /\ done' = done \cup {"RegisterEthStatsService"}
    /\ UNCHANGED <<argv, ctx, env, pre, nodeCfg, vntCfg, checked, fatal, log, errors, node>>

\* cmd: StartNode(stack).  Node.Start runs the registered factories; an
\* error from one of them is fatal.
StartNode ==
    /\ fatal = NoFatal
    /\ "SetNodeConfig" \in done
    /\ "RegisterEthService" \in done
    /\ "StartNode" \notin called
    /\ LET r == RunFactories(env, vntCfg, services, 1, NotStarted)
       IN /\ node' = r
          /\ errors' = errors \o r.errors
          /\ fatal' = IF r.failed # ""
                       THEN Fatalf("StartNode", <<r.failed>>, "Error starting protocol stack")
                       ELSE NoFatal
          /\ done' = IF r.failed = "" THEN done \cup {"StartNode"} ELSE done
    /\ called' = called \cup {"StartNode"}
    /\ UNCHANGED <<argv, ctx, env, pre, nodeCfg, vntCfg, checked, log, services>>

Next ==
    \/ Parse
    \/ SetNodeConfig
    \/ SetEthConfig
    \/ RegisterEthService
    \/ RegisterEthStatsService
    \/ StartNode

\* The registered services' constructors vary in how they fail.
InitStart ==
    /\ argv \in {a \in ArgvOpts : a.literal # "archive"}
    /\ \E ls \in Unset(0) \cup SetTo({10}), es \in EthStatsURLOpts :
          ctx = Context([set |-> FALSE, value |-> FastSync], ls,
                        [set |-> FALSE, value |-> 1], [set |-> FALSE, value |-> 25],
                        [set |-> FALSE, value |-> 1024], [set |-> FALSE, value |-> 75],
                        [set |-> FALSE, value |-> 25], [set |-> FALSE, value |-> "full"],
                        [set |-> FALSE, value |-> FALSE], [set |-> FALSE, value |-> ""],
                        [set |-> FALSE, value |-> FALSE], [set |-> FALSE, value |-> "any"],
                        [set |-> FALSE, value |-> ""], [set |-> FALSE, value |-> "0"])
                @@ MoreFlags([set |-> FALSE, value |-> EmptyString],
                             [set |-> FALSE, value |-> EmptyString],
                             [set |-> FALSE, value |-> EmptyString], es)
    /\ env \in {{}} \cup {{x} : x \in Constructors}
    /\ \E m \in SyncModes, s \in {0, 10} :
          pre = [node |-> NodeConfig(25, FALSE, "gvnt.ipc"),
                 vnt |-> VntConfig(m, s, 1, 768, 256)]
    /\ Fresh

\* The bootstrap-node flags and the configured bootstrap nodes vary.
InitBoot ==
    /\ argv \in {a \in ArgvOpts : a.literal \in {"", "light"}}
    /\ \E vb \in VNTBootnodeOpts, bn \in BootnodesOpts, b4 \in BootnodesV4Opts :
          ctx = Context([set |-> FALSE, value |-> FastSync], [set |-> FALSE, value |-> 0],
                        [set |-> FALSE, value |-> 1], [set |-> FALSE, value |-> 25],
                        [set |-> FALSE, value |-> 1024], [set |-> FALSE, value |-> 75],
                        [set |-> FALSE, value |-> 25], [set |-> FALSE, value |-> "full"],
                        [set |-> FALSE, value |-> FALSE], [set |-> FALSE, value |-> ""],
                        [set |-> FALSE, value |-> FALSE], [set |-> FALSE, value |-> "any"],
                        [set |-> FALSE, value |-> ""], [set |-> FALSE, value |-> "0"])
                @@ MoreFlags(vb, bn, b4, [set |-> TRUE, value |-> "node:secret@host:3000"])
    /\ env \in {{}, {"setNodeKey"}}
    /\ \E b \in {NilNodes, Nodes(<<"vnode://b">>)} :
          pre = [node |-> [NodeConfig(25, FALSE, "gvnt.ipc")
                           EXCEPT !.P2P.BootstrapNodes = b],
                 vnt |-> VntConfig(FastSync, 0, 1, 768, 256)]
    /\ Fresh

Spec == Init /\ [][Next]_vars
SpecStart == InitStart /\ [][Next]_vars
SpecBoot == InitBoot /\ [][Next]_vars
SpecPeers == InitPeers /\ [][Next]_vars
SpecCache == InitCache /\ [][Next]_vars

\* ------------------------------------------------------------------ claims
\* The members of a mutual-exclusion group: each flag with the literal that
\* qualifies it, if one follows it.
RECURSIVE Members(_, _)
Members(args, i) ==
    IF i > Len(args) THEN {}
    ELSE IF i + 1 <= Len(args) /\ args[i + 1].kind = "string"
    THEN {[flag |-> args[i].Name, qualified |-> TRUE, literal |-> args[i + 1].s]}
         \cup Members(args, i + 2)
    ELSE {[flag |-> args[i].Name, qualified |-> FALSE, literal |-> ""]}
         \cup Members(args, i + 1)

\* A member qualifies iff it was explicitly set and, when qualified, its
\* current value equals the literal.
Qualifies(m) ==
    /\ ctx[m.flag].set
    /\ m.qualified => GlobalString(ctx, m.flag) = m.literal
Qualifying(args) == {m \in Members(args, 1) : Qualifies(m)}
ReportedName(m) ==
    "--" \o m.flag \o (IF m.qualified THEN "=" \o m.literal ELSE "")
Range(seq) == {seq[i] : i \in 1..Len(seq)}
ExclusiveStopped == fatal.fn = "checkExclusive"

\* C1: checkExclusive never terminates the process for a group in which at
\* most one member qualifies (explicitly set and, when qualified, holding the
\* qualifying literal): whenever checkExclusive has stopped the process, the
\* group it was checking has two or more qualifying members.
C1_NoStopUnlessTwoQualify ==
    ExclusiveStopped => Cardinality(Qualifying(checked[Len(checked)])) >= 2

\* C2: every checkExclusive call on a group with two or more qualifying
\* members terminates the process, and the reported list names each of them,
\* a qualified member as flag=value.
C2_StopsWhenTwoQualify ==
    \A i \in 1..Len(checked) :
        Cardinality(Qualifying(checked[i])) >= 2 =>
            /\ i = Len(checked)
            /\ ExclusiveStopped
            /\ \A m \in Qualifying(checked[i]) : ReportedName(m) \in Range(fatal.set)

\* C2 witness: --lightserv together with --syncmode=light was refused and
\* both are named.
C2_Witness ==
    /\ ExclusiveStopped
    /\ checked[Len(checked)] = LightGroup
    /\ Cardinality(Qualifying(LightGroup)) = 2
    /\ fatal.set = <<"--lightserv", "--syncmode=light">>

\* C3: a configuration whose resolved sync mode is Light and whose resolved
\* light-serve percentage is above 0 never reaches RegisterEthService.
C3_LightClientNeverServes ==
    "RegisterEthService" \in called =>
        ~(vntCfg.SyncMode = LightSync /\ vntCfg.LightServ > 0)

\* The inputs of the peer-slot resolution, as the claims name them.
ExplicitMaxPeers == ctx["maxpeers"].set
ExplicitLightPeers == ctx["lightpeers"].set
LightPeerCount == ctx["lightpeers"].value
IsLightServer == ctx["lightserv"].value # 0
IsLightClient == MarshalText(ctx["syncmode"].value) = "light"
PeersResolved == log.written

\* C4: with --maxpeers explicit, the resolved total is the explicit value,
\* plus the default light-peer-count iff the node is a light server and
\* --lightpeers is not explicit.
C4_ExplicitMaxPeers ==
    (PeersResolved /\ ExplicitMaxPeers) =>
        nodeCfg.P2P.MaxPeers =
            IF IsLightServer /\ ~ExplicitLightPeers
            THEN ctx["maxpeers"].value + LightPeerCount
            ELSE ctx["maxpeers"].value

\* C4 witness: explicit --maxpeers on a light server with the default
\* light-peer-count, which was added.
C4_Witness ==
    /\ PeersResolved /\ ExplicitMaxPeers /\ IsLightServer /\ ~ExplicitLightPeers
    /\ LightPeerCount > 0
    /\ nodeCfg.P2P.MaxPeers = ctx["maxpeers"].value + LightPeerCount

\* C5: with --maxpeers not explicit, the resolved total is the total the
\* configuration held on entry, plus light-peer-count on a light server, then
\* raised to light-peer-count on a light client with explicit --lightpeers
\* when it is below it; nothing else.
C5_DefaultMaxPeers ==
    (PeersResolved /\ ~ExplicitMaxPeers) =>
        LET t == pre.node.P2P.MaxPeers + (IF IsLightServer THEN LightPeerCount ELSE 0)
        IN nodeCfg.P2P.MaxPeers =
               IF IsLightClient /\ ExplicitLightPeers /\ t < LightPeerCount
               THEN LightPeerCount ELSE t

\* C5 witness: a light client with explicit --lightpeers above the prior
\* total, which was raised to it.
C5_Witness ==
    /\ PeersResolved /\ ~ExplicitMaxPeers /\ IsLightClient /\ ExplicitLightPeers
    /\ pre.node.P2P.MaxPeers < LightPeerCount
    /\ nodeCfg.P2P.MaxPeers = LightPeerCount

\* C6: total, fullSlots and lightSlots are non-negative for every
\* non-negative input.
C6_SlotsNonNegative ==
    PeersResolved => (log.total >= 0 /\ log.VNT >= 0 /\ log.LES >= 0)

\* C7: a light client or light server ends with a total of at least the
\* light-peer-count.
C7_TotalCoversLightPeers ==
    (PeersResolved /\ (IsLightClient \/ IsLightServer)) =>
        nodeCfg.P2P.MaxPeers >= LightPeerCount

\* C8: a light client gets no full-protocol slots.
C8_LightClientNoFullSlots ==
    (PeersResolved /\ IsLightClient) => log.VNT = 0

\* C8 witness: a light client whose total exceeds its light slots, so that
\* the difference was discarded.
C8_Witness ==
    /\ PeersResolved /\ IsLightClient
    /\ log.total - log.LES > 0
    /\ log.VNT = 0

\* The inputs of the cache resolution, as the claims name them.
Budget == ctx["cache"].value
DatabasePercent == ctx["cache.database"].value
GCPercent == ctx["cache.gc"].value
\* SetEthConfig returned and computed both cache sizes.
BothCachesComputed ==
    /\ "SetEthConfig" \in done
    /\ ctx["cache"].set \/ (ctx["cache.database"].set /\ ctx["cache.gc"].set)
CachesAreFloors ==
    /\ vntCfg.DatabaseCache = (Budget * DatabasePercent) \div 100
    /\ vntCfg.TrieCache = (Budget * GCPercent) \div 100

\* C9 as stated: for every budget and every pair of percentages in [0,100]
\* the two caches sum to at most the budget, with equality only when the
\* percentages sum to 100.
C9_WithinBudget ==
    BothCachesComputed =>
        /\ CachesAreFloors
        /\ vntCfg.DatabaseCache + vntCfg.TrieCache <= Budget
        /\ vntCfg.DatabaseCache + vntCfg.TrieCache = Budget
               => DatabasePercent + GCPercent = 100

\* C9 as amended: the bound holds when the percentages sum to at most 100,
\* and then equality needs a sum of exactly 100 or a budget of 0.
C9_WithinBudgetWhenPercentsFit ==
    BothCachesComputed =>
        /\ CachesAreFloors
        /\ DatabasePercent + GCPercent <= 100 =>
               /\ vntCfg.DatabaseCache + vntCfg.TrieCache <= Budget
               /\ vntCfg.DatabaseCache + vntCfg.TrieCache = Budget
                      => (DatabasePercent + GCPercent = 100 \/ Budget = 0)

\* C9 witness: percentages summing to 100 whose floors lose a megabyte.
C9_Witness ==
    /\ BothCachesComputed
    /\ Budget > 0
    /\ DatabasePercent + GCPercent = 100
    /\ vntCfg.DatabaseCache + vntCfg.TrieCache < Budget

\* C10: SetEthConfig leaves cfg.DatabaseCache as it was unless --cache or
\* --cache.database was set, and cfg.TrieCache as it was unless --cache or
\* --cache.gc was set.
C10_CachesKeptUnlessAsked ==
    "SetEthConfig" \in called =>
        /\ (~ctx["cache"].set /\ ~ctx["cache.database"].set)
               => vntCfg.DatabaseCache = pre.vnt.DatabaseCache
        /\ (~ctx["cache"].set /\ ~ctx["cache.gc"].set)
               => vntCfg.TrieCache = pre.vnt.TrieCache

\* C10 witness: only --cache.gc was set; the trie cache was recomputed and
\* the database cache, which a recomputation would have changed, was kept.
C10_Witness ==
    /\ "SetEthConfig" \in done
    /\ ctx["cache.gc"].set /\ ~ctx["cache"].set /\ ~ctx["cache.database"].set
    /\ vntCfg.TrieCache # pre.vnt.TrieCache
    /\ vntCfg.DatabaseCache = pre.vnt.DatabaseCache
    /\ pre.vnt.DatabaseCache # (Budget * DatabasePercent) \div 100

\* ------------------------------------------------- service composition
\* How often a constructor was called during the node's start.
Calls(fn) == Cardinality({i \in 1..Len(node.calls) : node.calls[i] = fn})
\* The running services of a type.
Running(type) == {i \in 1..Len(node.running) : node.running[i].type = type}
\* The primary service was constructed without error.
PrimaryConstructed == Running("vnt.VNT") \cup Running("les.LightVnt") # {}

\* C11: the services composed by RegisterEthService's factory are decided
\* by cfg.SyncMode and cfg.LightServ alone.  LightSync: exactly one light
\* client and no light server.  FullSync or FastSync: exactly one full node,
\* and a light server is constructed once and attached to that full node
\* exactly when cfg.LightServ > 0.
C11_ServicesFollowModeAndLightServ ==
    PrimaryConstructed =>
        IF vntCfg.SyncMode = LightSync
        THEN /\ Calls("les.New") = 1 /\ Calls("vnt.New") = 0
             /\ Calls("les.NewLesServer") = 0 /\ Calls("AddLesServer") = 0
             /\ Cardinality(Running("les.LightVnt")) = 1 /\ Running("vnt.VNT") = {}
             /\ \A i \in Running("les.LightVnt") : node.running[i].lesServer = "none"
        ELSE /\ Calls("vnt.New") = 1 /\ Calls("les.New") = 0
             /\ Cardinality(Running("vnt.VNT")) = 1 /\ Running("les.LightVnt") = {}
             /\ Calls("les.NewLesServer") = (IF vntCfg.LightServ > 0 THEN 1 ELSE 0)
             /\ Calls("AddLesServer") = Calls("les.NewLesServer")
             /\ \A i \in Running("vnt.VNT") :
                    /\ node.running[i].lesServer # "none" <=> vntCfg.LightServ > 0
                    /\ "les.NewLesServer" \notin env /\ vntCfg.LightServ > 0
                           => node.running[i].lesServer = "les.LesServer"

\* C11 witness: a full node is running with its light server attached.
C11_Witness ==
    /\ "StartNode" \in done
    /\ vntCfg.SyncMode # LightSync /\ vntCfg.LightServ > 0
    /\ \E i \in Running("vnt.VNT") : node.running[i].lesServer = "les.LesServer"

\* The light server's construction was tried and failed.
SidecarFailed == Calls("les.NewLesServer") > 0 /\ NewLesServer(env).err

\* C12: when the light server's construction fails inside the full-node
\* factory, the failure is reported, the factory still returns the full node
\* without error, and nothing is attached to the full node.
C12_SidecarFailureReported ==
    SidecarFailed =>
        /\ \E i \in 1..Len(errors) : errors[i].key = "les.NewLesServer"
        /\ node.failed # "vnt.VNT"
        /\ Calls("AddLesServer") = 0
        /\ \A i \in Running("vnt.VNT") : node.running[i].lesServer = "none"

\* C13: after SetEthConfig returned, cfg.LightServ lies in 0..90 whatever
\* value --lightserv was given.
C13_LightServInRange ==
    "SetEthConfig" \in done => vntCfg.LightServ \in 0..90

\* The stats factory was reached by the node's start: every factory
\* registered before it constructed its service.
EthStatsAt(i) ==
    /\ "StartNode" \in called
    /\ i \in 1..Len(services)
    /\ services[i].service = "vntstats.Service"
    /\ Len(node.running) >= i - 1
\* What a lookup by the factory at position i finds.
FoundBy(i, type) ==
    IF \E j \in 1..(i - 1) : services[j].service = type THEN type ELSE Nil

C15_InvalidBootnodeStops ==
    (\E i \in 1..Len(errors) : errors[i].msg = "Bootstrap URL invalid")
        => "SetNodeConfig" \notin done

\* C16: the peer-slot resolution of SetP2PConfig runs only after the
\* exclusion check of --lightserv against --syncmode=light has passed.
C16_CheckBeforePeerResolution ==
    log.written => \E i \in 1..Len(checked) : checked[i] = LightGroup

\* The literals SyncMode.UnmarshalText knows.
SyncModeLiterals == {MarshalText(m) : m \in SyncModes}

\* C17: a --syncmode literal outside full, fast and light ends the run with
\* an error before any resolver or the service selector runs; no resolver
\* reads it as a mode.
C17_UnknownLiteralStops ==
    (argv.given /\ argv.literal \notin SyncModeLiterals) =>
        /\ called \subseteq {"Parse"}
        /\ "Parse" \in called => fatal.fn = "Parse"
        /\ ~ctx[SyncModeFlag.Name].set
        /\ ~log.written /\ services = <<>> /\ node = NotStarted
        /\ nodeCfg = pre.node /\ vntCfg = pre.vnt

\* C17 witness: --syncmode archive was refused by the front end.
C17_Witness ==
    /\ argv.given /\ argv.literal = "archive"
    /\ fatal.fn = "Parse"

\* C18: after SetP2PConfig and SetEthConfig both ran, SetP2PConfig treated
\* the node as a light client (discovery switched off, no full-protocol
\* slots) exactly when the resolved cfg.SyncMode is LightSync.
C18_LightDecisionsAgree ==
    ("SetNodeConfig" \in done /\ "SetEthConfig" \in done
     /\ ~GlobalIsSet(ctx, NoDiscoverFlag.Name) /\ ~pre.node.P2P.NoDiscovery) =>
        /\ nodeCfg.P2P.NoDiscovery <=> vntCfg.SyncMode = LightSync
        /\ vntCfg.SyncMode = LightSync => log.VNT = 0

\* C19: when vnt.New returns an error, the full-node factory constructs and
\* attaches no light server, whatever node vnt.New returned with it.
C19_NoSidecarAfterFailedConstruction ==
    (Calls("vnt.New") > 0 /\ vntNew(env).err) =>
        Calls("les.NewLesServer") = 0 /\ Calls("AddLesServer") = 0

====
